---- MODULE Spec2Model ----
(***************************************************************************)
(* A model of WebScraper (scraper.py): the paginated collection run of    *)
(* WebScraper.run and the helpers it calls (fetch_page, get_pagination,   *)
(* extract_journal_data, save_to_csv, visualize_data).                    *)
(*                                                                         *)
(* Texts are sequences of one-character strings, so that str.split(),     *)
(* str.strip() and int() are computed, not assumed.  A Python variable    *)
(* that is not bound yet is <<>> and a bound one is <<value>>.            *)
(***************************************************************************)
EXTENDS Integers, Sequences, FiniteSets, TLC

\* ------------------------------------------------------------- bounds
\* The largest page count a pagination summary of the modelled site states.
MaxPages == 2
\* The largest number of blocks of one kind (name, affiliation,
\* accreditation) on one results page.
MaxBlocks == 2

\* ------------------------------------------------------ program constants
\* time.sleep(2): the seconds of the pacing wait
PacingDelay == 2
\* num_split[3]: the 0-based index of the page-count token
PageCountIndex == 3

\* ----------------------------------------------------------------- text
Space == <<" ">>
IsSpace(c) == c \in {" ", "\t", "\n"}

Digits == <<"0", "1", "2", "3", "4", "5", "6", "7", "8", "9">>
IsDigit(c) == \E d \in 1..Len(Digits) : Digits[d] = c
DigitVal(c) == (CHOOSE d \in 1..Len(Digits) : Digits[d] = c) - 1

\* str(n) for a natural number n
RECURSIVE IntToChars(_)
IntToChars(n) ==
    IF n < 10 THEN <<Digits[n + 1]>>
    ELSE IntToChars(n \div 10) \o <<Digits[(n % 10) + 1]>>

\* str.split() without arguments: the maximal runs of non-whitespace, in
\* order.  A token starts where a non-whitespace character follows the start
\* of the text or a whitespace character, and ends before the next whitespace.
TokenStarts(s) ==
    {i \in DOMAIN s : ~IsSpace(s[i]) /\ (i = 1 \/ IsSpace(s[i - 1]))}
TokenEnd(s, i) ==
    CHOOSE j \in i..Len(s) :
        /\ \A k \in i..j : ~IsSpace(s[k])
        /\ (j = Len(s) \/ IsSpace(s[j + 1]))
Split(s) ==
    [k \in 1..Cardinality(TokenStarts(s)) |->
        LET i == CHOOSE x \in TokenStarts(s) :
                     Cardinality({y \in TokenStarts(s) : y < x}) = k - 1
        IN  SubSeq(s, i, TokenEnd(s, i))]

RECURSIVE LStrip(_)
LStrip(s) == IF s # <<>> /\ IsSpace(Head(s)) THEN LStrip(Tail(s)) ELSE s

RECURSIVE RStrip(_)
RStrip(s) ==
    IF s # <<>> /\ IsSpace(s[Len(s)]) THEN RStrip(SubSeq(s, 1, Len(s) - 1))
    ELSE s

\* str.strip()
Strip(s) == RStrip(LStrip(s))

RECURSIVE DigitsValue(_)
DigitsValue(s) ==
    IF s = <<>> THEN 0
    ELSE 10 * DigitsValue(SubSeq(s, 1, Len(s) - 1)) + DigitVal(s[Len(s)])

AllDigits(s) == s # <<>> /\ \A i \in 1..Len(s) : IsDigit(s[i])

\* int(tok) of a whitespace-free token: an optional sign and decimal digits;
\* anything else is a ValueError (ok = FALSE).
PyInt(tok) ==
    LET signed == tok # <<>> /\ Head(tok) \in {"+", "-"}
        body   == IF signed THEN Tail(tok) ELSE tok
    IN  IF AllDigits(body)
        THEN [ok |-> TRUE,
              val |-> IF signed /\ Head(tok) = "-"
                      THEN 0 - DigitsValue(body) ELSE DigitsValue(body)]
        ELSE [ok |-> FALSE, val |-> 0]

\* ------------------------------------------------------------ the site
Chars_Page == <<"P", "a", "g", "e">>
Chars_page == <<"p", "a", "g", "e">>
Chars_Showing == <<"S", "h", "o", "w", "i", "n", "g">>
Chars_results == <<"r", "e", "s", "u", "l", "t", "s">>
Chars_of == <<"o", "f">>
Chars_Total == <<"T", "o", "t", "a", "l">>
Chars_Records == <<"R", "e", "c", "o", "r", "d", "s">>

RECURSIVE JoinWords(_)
JoinWords(ws) ==
    IF ws = <<>> THEN <<>>
    ELSE IF Len(ws) = 1 THEN ws[1]
    ELSE ws[1] \o Space \o JoinWords(Tail(ws))

\* Pagination summaries a first page may carry, for a listing of t pages.
\* "Page 1 of t | Total Records : r": the page count is the 4th token.
SiteSummary(t) ==
    JoinWords(<<Chars_Page, <<"1">>, Chars_of, IntToChars(t), <<"|">>,
                Chars_Total, Chars_Records, <<":">>, IntToChars(10 * t)>>)
\* "Showing results page 1 of t"
ShowingResultsSummary(t) ==
    JoinWords(<<Chars_Showing, Chars_results, Chars_page, <<"1">>, Chars_of,
                IntToChars(t)>>)
\* "Showing page 1 of t"
ShowingSummary(t) ==
    JoinWords(<<Chars_Showing, Chars_page, <<"1">>, Chars_of, IntToChars(t)>>)
\* "Page 1 of": the text ends before the page count
TruncatedSummary == JoinWords(<<Chars_Page, <<"1">>, Chars_of>>)

\* What soup.find_all('div', class_='text-center pagination-text') may
\* return on the first page: no such div, or one div with one of the texts.
PaginationDivs ==
    {<<>>, << <<>> >>, <<TruncatedSummary>>}
    \cup {<<SiteSummary(t)>> : t \in 0..MaxPages}
    \cup {<<ShowingResultsSummary(t)>> : t \in 1..MaxPages}
    \cup {<<ShowingSummary(t)>> : t \in 1..MaxPages}

\* The i-th blocks of a results page, with the whitespace of the markup.
NameText(i) == <<"\n", " ", "J", " ">> \o IntToChars(i) \o <<" ", "\n">>
AffilText(i) == <<" ", "U">> \o IntToChars(i) \o <<" ">>
AccredText(i) == <<"S">> \o IntToChars(i) \o <<" ", "A", "c", "c", "\n">>
Href(i) == <<"/", "j", "/">> \o IntToChars(i)
OtherHref == <<"/", "g", "s">>

\* The anchors nested in a name block: none, one with an href, two with
\* hrefs, or one without an href attribute.
AnchorKinds == {"none", "href", "two", "nohref"}
AnchorsOf(i, kind) ==
    CASE kind = "none"   -> <<>>
      [] kind = "href"   -> <<[attrs |-> [href |-> Href(i)]]>>
      [] kind = "two"    -> <<[attrs |-> [href |-> Href(i)]],
                              [attrs |-> [href |-> OtherHref]]>>
      [] kind = "nohref" -> <<[attrs |-> [title |-> Href(i)]]>>

NameBlock(i, kind) == [text |-> NameText(i), anchors |-> AnchorsOf(i, kind)]

\* A parsed page: what the three find_all calls of extract_journal_data and
\* the one of get_pagination return on it.
Page(kinds, m, p, pag) ==
    [pagination |-> pag,
     names      |-> [i \in 1..Len(kinds) |-> NameBlock(i, kinds[i])],
     affils     |-> [i \in 1..m |-> AffilText(i)],
     accreds    |-> [i \in 1..p |-> AccredText(i)]]

KindSeqs == UNION {[1..k -> AnchorKinds] : k \in 0..MaxBlocks}

\* Every page within the bounds: block counts are independent.
AllPages(pag) ==
    {Page(ks, m, p, pag) : ks \in KindSeqs, m \in 0..MaxBlocks, p \in 0..MaxBlocks}

\* The pages the site serves during a run: every entry but possibly the last
\* links to its journal, every entry states its affiliation, and accreditation
\* badges may be missing from the end.
SiteKindSeqs ==
    {ks \in KindSeqs :
        \A i \in 1..Len(ks) : i < Len(ks) => ks[i] = "href"}
SitePages(pag) ==
    {Page(ks, Len(ks), p, pag) : ks \in SiteKindSeqs, p \in 0..MaxBlocks}

\* The page the URL without a page parameter serves: the listing's first
\* entry and the pagination summary.
FirstPage(pag) == Page(<<"href">>, 1, 1, pag)

\* ------------------------------------------------------------ the state
VARIABLES
    pc,            \* the statement of run() that executes next
    initial_url,   \* run: initial_url
    initial_soup,  \* run: initial_soup
    total_pages,   \* run: total_pages
    page,          \* run: the loop variable
    url,           \* run: url
    soup,          \* run: soup
    journals,      \* run: journals
    all_journals,  \* run: all_journals
    log,           \* the entries written to self.log_filename
    csv,           \* the rows of self.filename, <<>> wrapped; <<>> when no file
    viz,           \* the image files in self.viz_dir
    stdout,        \* what print() has written
    exit,          \* how run() ended: <<>> while running and on return
    events,        \* history: the calls run() made, in order
    extracted      \* history: the value extract_journal_data returned per page

vars == <<pc, initial_url, initial_soup, total_pages, page, url, soup, journals,
          all_journals, log, csv, viz, stdout, exit, events, extracted>>

\* main(): the two run parameters
base_url == "https://sinta.kemdikbud.go.id/journals/"
keyword == "teknologi informasi"

Info(msg) == [level |-> "INFO", msg |-> msg]
Error(msg) == [level |-> "ERROR", msg |-> msg]

\* An entry of the history: n is the page number of a GET (0: the URL without
\* a page parameter), the value get_pagination returned, the number of
\* records extracted or appended, or the seconds slept.
Event(op, n) == [op |-> op, n |-> n, ok |-> TRUE]
\* The call raised.
Raised(op) == [op |-> op, n |-> 0, ok |-> FALSE]

\* WebScraper.__init__: an empty self.data, the output paths, two log lines.
Init ==
    /\ pc = "run"
    /\ initial_url = <<>>
    /\ initial_soup = <<>>
    /\ total_pages = <<>>
    /\ page = <<>>
    /\ url = <<>>
    /\ soup = <<>>
    /\ journals = <<>>
    /\ all_journals = <<>>
    /\ log = <<Info("Output directory created at"),
               Info("Visualization directory created at")>>
    /\ csv = <<>>
    /\ viz = {}
    /\ stdout = <<>>
    /\ exit = <<>>
    /\ events = <<>>
    /\ extracted = <<>>

\* ------------------------------------------------------ pure functions
\* The page count taken from the last token instead of the 4th.
get_pagination_LastToken(s) ==
    LET pagination == s.pagination
        num_split  == Split(pagination[1])
        n          == PyInt(num_split[Len(num_split)])
    IN  IF Len(pagination) = 0 THEN [raised |-> TRUE, value |-> 0]
        ELSE IF Len(num_split) = 0 THEN [raised |-> TRUE, value |-> 0]
        ELSE IF ~n.ok THEN [raised |-> TRUE, value |-> 0]
        ELSE [raised |-> FALSE, value |-> n.val]

\* get_pagination: the page count of the first page, or raised = TRUE where
\* the try block raises (IndexError, ValueError) and SystemExit replaces it.
get_pagination(s) ==
    LET pagination == s.pagination
        num_split  == Split(pagination[1])
        n          == PyInt(num_split[PageCountIndex + 1])
    IN  IF Len(pagination) = 0 THEN [raised |-> TRUE, value |-> 0]
        ELSE IF Len(num_split) < PageCountIndex + 1
             THEN [raised |-> TRUE, value |-> 0]
        ELSE IF ~n.ok THEN [raised |-> TRUE, value |-> 0]
        ELSE [raised |-> FALSE, value |-> n.val]

\* journal_names[i].find('a')['href'] if journal_names[i].find('a') else ''
LinkRaises(block) ==
    block.anchors # <<>> /\ "href" \notin DOMAIN block.anchors[1].attrs
LinkOf(block) ==
    IF block.anchors # <<>> THEN block.anchors[1].attrs.href ELSE <<>>

\* A bound that is off by one: the last block of a full set is lost.
OptionalTextShort(blocks, i) ==
    IF i < Len(blocks) THEN Strip(blocks[i]) ELSE <<>>

\* affiliations[i].text.strip() if i < len(affiliations) else ''
\* (i counts from 1 here, from 0 in the source)
OptionalText(blocks, i) == IF i <= Len(blocks) THEN Strip(blocks[i]) ELSE <<>>

\* The dictionary built for name block i.
JournalAt(s, i) ==
    [name          |-> Strip(s.names[i].text),
     link          |-> LinkOf(s.names[i]),
     affiliation   |-> OptionalText(s.affils, i),
     accreditation |-> OptionalText(s.accreds, i)]

\* An extraction that also raises when the page has no name block.
extract_journal_data_Strict(s) ==
    IF Len(s.names) = 0 \/ \E i \in 1..Len(s.names) : LinkRaises(s.names[i])
    THEN [raised |-> TRUE, value |-> <<>>]
    ELSE [raised |-> FALSE,
          value  |-> [i \in 1..Len(s.names) |-> JournalAt(s, i)]]

\* extract_journal_data: one record per name block, or raised = TRUE where the
\* try block raises (an anchor without href: KeyError).
extract_journal_data(s) ==
    IF \E i \in 1..Len(s.names) : LinkRaises(s.names[i])
    THEN [raised |-> TRUE, value |-> <<>>]
    ELSE [raised |-> FALSE,
          value  |-> [i \in 1..Len(s.names) |-> JournalAt(s, i)]]

\* pd.DataFrame(data).to_csv(index=False): one row per record, the columns in
\* the order of the dictionary's keys.
ToCsv(data) ==
    [i \in 1..Len(data) |->
        <<data[i].name, data[i].link, data[i].affiliation, data[i].accreditation>>]

\* table_data of run(): Name, Affiliation, Accreditation, Link.
TableData(data) ==
    [i \in 1..Len(data) |->
        <<data[i].name, data[i].affiliation, data[i].accreditation, data[i].link>>]

\* range(1, total_pages): the last page is left out.
PageRangeExclusive(n) == [i \in 1..(n - 1) |-> i]

\* range(1, total_pages + 1)
PageRange(n) == [i \in 1..n |-> i]

\* f"{base_url}?q={keyword}" and f"{base_url}?page={page}&q={keyword}"
InitialUrl == [base |-> base_url, page |-> <<>>, q |-> keyword]
PageUrl(n) == [base |-> base_url, page |-> <<n>>, q |-> keyword]
UrlPage(u) == IF u.page = <<>> THEN 0 ELSE u.page[1]

\* ---------------------------------------------------------- how run ends
\* raise SystemExit(msg) in function fn: not an Exception, so the handler of
\* run() does not see it.
SystemExit(msg, fn) ==
    /\ pc' = "Aborted"
    /\ exit' = <<[exc |-> "SystemExit", msg |-> msg, raised_in |-> fn]>>

\* An Exception raised in fn reaches the handler of run(): an error entry, a
\* console line, and the exception is raised again.
Unhandled(exc, fn) ==
    /\ log' = Append(log, Error("Error in scraping process"))
    /\ stdout' = Append(stdout, [line |-> "An error occurred", rows |-> <<>>])
    /\ pc' = "Aborted"
    /\ exit' = <<[exc |-> exc, msg |-> "", raised_in |-> fn]>>

\* A fetch failure that ends the collection and exports what was collected.
FetchFailedThenExport ==
    /\ log' = Append(log, Error("Error fetching page"))
    /\ pc' = "save_to_csv"
    /\ UNCHANGED <<stdout, exit>>

\* fetch_page, the except branch: the error entry and SystemExit.
FetchFailed ==
    /\ log' = Append(log, Error("Error fetching page"))
    /\ SystemExit("An error occurred! Log file has been written to", "fetch_page")
    /\ UNCHANGED stdout

\* fetch_page: BeautifulSoup raises, which is no RequestException.
ParseFailed == Unhandled("ParserRejectedMarkup", "fetch_page")

\* -------------------------------------------------------------- run()
\* all_journals = []; initial_url = f"{self.base_url}?q={self.keyword}"
Start ==
    /\ pc = "run"
    /\ all_journals' = <<>>
    /\ initial_url' = <<InitialUrl>>
    /\ pc' = "fetch_initial"
    /\ UNCHANGED <<initial_soup, total_pages, page, url, soup, journals, log,
                   csv, viz, stdout, exit, events, extracted>>

\* initial_soup = self.fetch_page(initial_url)
FetchInitial ==
    /\ pc = "fetch_initial"
    /\ \/ /\ \E pag \in PaginationDivs : initial_soup' = <<FirstPage(pag)>>
          /\ events' = Append(events, Event("GET", UrlPage(initial_url[1])))
          /\ pc' = "get_pagination"
          /\ UNCHANGED <<log, stdout, exit>>
       \/ /\ FetchFailed
          /\ events' = Append(events, Raised("GET"))
          /\ UNCHANGED initial_soup
       \/ /\ ParseFailed
          /\ events' = Append(events, Raised("GET"))
          /\ UNCHANGED initial_soup
    /\ UNCHANGED <<initial_url, total_pages, page, url, soup, journals,
                   all_journals, csv, viz, extracted>>

\* total_pages = self.get_pagination(initial_soup), and the log line after it
GetPagination ==
    /\ pc = "get_pagination"
    /\ \/ /\ get_pagination(initial_soup[1]).raised
          /\ SystemExit("Aborted, Keyword Not Found!!!", "get_pagination")
          /\ events' = Append(events, Raised("get_pagination"))
          /\ UNCHANGED <<total_pages, log>>
       \/ /\ ~get_pagination(initial_soup[1]).raised
          /\ total_pages' = <<get_pagination(initial_soup[1]).value>>
          /\ events' = Append(events,
                    Event("get_pagination", get_pagination(initial_soup[1]).value))
          /\ log' = Append(log, Info("Starting scraping process"))
          /\ pc' = "for"
          /\ UNCHANGED exit
    /\ UNCHANGED <<initial_url, initial_soup, page, url, soup, journals,
                   all_journals, csv, viz, stdout, extracted>>

\* for page in range(1, total_pages + 1): the next page number, its URL and
\* the log line, or the end of the loop
ForPage ==
    /\ pc = "for"
    /\ LET pages == PageRange(total_pages[1])
           k     == IF page = <<>> THEN 1 ELSE page[1] + 1
       IN  IF k <= Len(pages)
           THEN /\ page' = <<pages[k]>>
                /\ url' = <<PageUrl(pages[k])>>
                /\ log' = Append(log, Info("Scraping page"))
                /\ pc' = "fetch_page"
           ELSE /\ pc' = "save_to_csv"
                /\ UNCHANGED <<page, url, log>>
    /\ UNCHANGED <<initial_url, initial_soup, total_pages, soup, journals,
                   all_journals, csv, viz, stdout, exit, events, extracted>>

\* soup = self.fetch_page(url)
FetchPage ==
    /\ pc = "fetch_page"
    /\ \/ /\ \E pg \in SitePages(initial_soup[1].pagination) : soup' = <<pg>>
          /\ events' = Append(events, Event("GET", UrlPage(url[1])))
          /\ pc' = "extract"
          /\ UNCHANGED <<log, stdout, exit>>
       \/ /\ FetchFailed
          /\ events' = Append(events, Raised("GET"))
          /\ UNCHANGED soup
       \/ /\ ParseFailed
          /\ events' = Append(events, Raised("GET"))
          /\ UNCHANGED soup
    /\ UNCHANGED <<initial_url, initial_soup, total_pages, page, url, journals,
                   all_journals, csv, viz, extracted>>

\* journals = self.extract_journal_data(soup)
ExtractPage ==
    /\ pc = "extract"
    /\ LET r == extract_journal_data(soup[1])
       IN  IF r.raised
           THEN /\ log' = Append(log, Error("Error extracting journal data"))
                /\ SystemExit("Aborted, Keyword Not Found!!!",
                              "extract_journal_data")
                /\ events' = Append(events, Raised("extract"))
                /\ UNCHANGED <<journals, extracted>>
           ELSE /\ journals' = r.value
                /\ extracted' = Append(extracted,
                                       [page |-> page[1], records |-> r.value])
                /\ events' = Append(events, Event("extract", Len(r.value)))
                /\ pc' = "extend"
                /\ UNCHANGED <<log, exit>>
    /\ UNCHANGED <<initial_url, initial_soup, total_pages, page, url, soup,
                   all_journals, csv, viz, stdout>>

\* The records of the page put in front of the accumulated ones.
ExtendAtFront ==
    /\ pc = "extend"
    /\ all_journals' = journals \o all_journals
    /\ events' = Append(events, Event("extend", Len(journals)))
    /\ pc' = "sleep"
    /\ UNCHANGED <<initial_url, initial_soup, total_pages, page, url, soup,
                   journals, log, csv, viz, stdout, exit, extracted>>

\* all_journals.extend(journals)
Extend ==
    /\ pc = "extend"
    /\ all_journals' = all_journals \o journals
    /\ events' = Append(events, Event("extend", Len(journals)))
    /\ pc' = "sleep"
    /\ UNCHANGED <<initial_url, initial_soup, total_pages, page, url, soup,
                   journals, log, csv, viz, stdout, exit, extracted>>

\* A wait only between two pages: none after the last page.
SleepBetweenPages ==
    /\ pc = "sleep"
    /\ events' = IF page = total_pages THEN events
                 ELSE Append(events, Event("sleep", PacingDelay))
    /\ pc' = "for"
    /\ UNCHANGED <<initial_url, initial_soup, total_pages, page, url, soup,
                   journals, all_journals, log, csv, viz, stdout, exit,
                   extracted>>

\* A wait that never returns.
SleepForever ==
    /\ pc = "sleep"
    /\ UNCHANGED vars

\* time.sleep(2)
Sleep ==
    /\ pc = "sleep"
    /\ events' = Append(events, Event("sleep", PacingDelay))
    /\ pc' = "for"
    /\ UNCHANGED <<initial_url, initial_soup, total_pages, page, url, soup,
                   journals, all_journals, log, csv, viz, stdout, exit,
                   extracted>>

\* self.save_to_csv(all_journals): the file and the log line, or SystemExit
\* with the file missing or cut short and nothing logged
save_to_csv ==
    /\ pc = "save_to_csv"
    /\ \/ /\ csv' = <<ToCsv(all_journals)>>
          /\ log' = Append(log, Info("Data saved to"))
          /\ events' = Append(events, Event("save_to_csv", Len(all_journals)))
          /\ pc' = "visualize_data"
          /\ UNCHANGED exit
       \/ /\ csv' \in {<<>>, << <<>> >>}
          /\ SystemExit("Error saving to CSV", "save_to_csv")
          /\ events' = Append(events, Raised("save_to_csv"))
          /\ UNCHANGED log
    /\ UNCHANGED <<initial_url, initial_soup, total_pages, page, url, soup,
                   journals, all_journals, viz, stdout, extracted>>

\* The two files visualize_data saves in self.viz_dir.
AffiliationChart == "affiliation_distribution.png"
AccreditationChart == "accreditation_distribution.png"

\* A failed visualization that removes the CSV file.
visualize_data_CleansUp ==
    /\ pc = "visualize_data"
    /\ \/ /\ viz' = {AffiliationChart, AccreditationChart}
          /\ log' = Append(log, Info("Visualizations created successfully"))
          /\ events' = Append(events, Event("visualize_data", Len(csv[1])))
          /\ pc' = "print"
          /\ UNCHANGED <<exit, csv>>
       \/ /\ viz' = {}
          /\ csv' = <<>>
          /\ SystemExit("Error creating visualizations", "visualize_data")
          /\ events' = Append(events, Raised("visualize_data"))
          /\ UNCHANGED log
    /\ UNCHANGED <<initial_url, initial_soup, total_pages, page, url, soup,
                   journals, all_journals, stdout, extracted>>

\* self.visualize_data(): both charts and the log line, or SystemExit with
\* the charts saved before the failure and nothing logged
visualize_data ==
    /\ pc = "visualize_data"
    /\ \/ /\ viz' = {AffiliationChart, AccreditationChart}
          /\ log' = Append(log, Info("Visualizations created successfully"))
          /\ events' = Append(events, Event("visualize_data", Len(csv[1])))
          /\ pc' = "print"
          /\ UNCHANGED exit
       \/ /\ viz' \in {{}, {AffiliationChart}}
          /\ SystemExit("Error creating visualizations", "visualize_data")
          /\ events' = Append(events, Raised("visualize_data"))
          /\ UNCHANGED log
    /\ UNCHANGED <<initial_url, initial_soup, total_pages, page, url, soup,
                   journals, all_journals, csv, stdout, extracted>>

\* The table, the final log line and the three console lines; or print
\* raises (an encoding error of the console) and the handler of run() runs.
PrintResults ==
    /\ pc = "print"
    /\ \/ /\ stdout' = stdout \o
                <<[line |-> "table", rows |-> TableData(all_journals)],
                  [line |-> "Scraping completed. Data saved to", rows |-> <<>>],
                  [line |-> "Visualizations saved in", rows |-> <<>>],
                  [line |-> "Log file location", rows |-> <<>>]>>
          /\ log' = Append(log, Info("Scraping process completed successfully"))
          /\ events' = Append(events, Event("print", Len(all_journals)))
          /\ pc' = "Done"
          /\ UNCHANGED exit
       \/ /\ Unhandled("UnicodeEncodeError", "run")
          /\ events' = Append(events, Raised("print"))
    /\ UNCHANGED <<initial_url, initial_soup, total_pages, page, url, soup,
                   journals, all_journals, csv, viz, extracted>>

Next ==
    \/ Start
    \/ FetchInitial
    \/ GetPagination
    \/ ForPage
    \/ FetchPage
    \/ ExtractPage
    \/ Extend
    \/ Sleep
    \/ save_to_csv
    \/ visualize_data
    \/ PrintResults

Spec == Init /\ [][Next]_vars

\* fetch_page returns or fails within its timeout and every other statement
\* of run() completes: the single thread of control keeps running.
LiveSpec == Spec /\ WF_vars(Next)

\* --------------------------------------- extract_journal_data on any page
\* The state of run() after page 1 of a one-page listing was fetched, the
\* page being any page within the bounds.
InitExtract ==
    /\ pc = "extract"
    /\ initial_url = <<InitialUrl>>
    /\ initial_soup = <<FirstPage(<<SiteSummary(1)>>)>>
    /\ total_pages = <<1>>
    /\ page = <<1>>
    /\ url = <<PageUrl(1)>>
    /\ soup \in {<<pg>> : pg \in AllPages(<<SiteSummary(1)>>)}
    /\ journals = <<>>
    /\ all_journals = <<>>
    /\ log = <<Info("Output directory created at"),
               Info("Visualization directory created at"),
               Info("Starting scraping process"),
               Info("Scraping page")>>
    /\ csv = <<>>
    /\ viz = {}
    /\ stdout = <<>>
    /\ exit = <<>>
    /\ events = <<Event("GET", 0), Event("get_pagination", 1), Event("GET", 1)>>
    /\ extracted = <<>>

ExtractSpec == InitExtract /\ [][ExtractPage]_vars

\* ================================================================ claims
IsPrefix(a, b) == Len(a) <= Len(b) /\ SubSeq(b, 1, Len(a)) = a

\* The calls of one kind that returned.
Calls(op) == {i \in DOMAIN events : events[i].op = op /\ events[i].ok}
\* The calls that raised.
RaisedCalls(ops) == {i \in DOMAIN events : events[i].op \in ops /\ ~events[i].ok}

ExportOps == {"save_to_csv", "visualize_data", "print"}
\* No export, visualization or print step has started.
NothingExported ==
    /\ csv = <<>>
    /\ viz = {}
    /\ \A i \in DOMAIN stdout : stdout[i].line # "table"
    /\ \A i \in DOMAIN events : events[i].op \notin ExportOps

\* The block counts of the page in soup.
K == Len(soup[1].names)
M == Len(soup[1].affils)
P == Len(soup[1].accreds)
\* extract_journal_data was applied to the page in soup.
Extracted == pc \in {"extend", "Aborted"} /\ soup # <<>> /\ events[Len(events)].op = "extract"

\* The texts of the i-th blocks without the whitespace of the markup.
NameOf(i) == <<"J", " ">> \o IntToChars(i)
AffiliationOf(i) == <<"U">> \o IntToChars(i)
AccreditationOf(i) == <<"S">> \o IntToChars(i) \o <<" ", "A", "c", "c">>

\* journals is what the claim describes for the page in soup.
AlignedRecords ==
    /\ pc = "extend"
    /\ Len(journals) = K
    /\ \A i \in 1..K :
        /\ journals[i].name = NameOf(i)
        /\ journals[i].affiliation = (IF i <= M THEN AffiliationOf(i) ELSE <<>>)
        /\ journals[i].accreditation = (IF i <= P THEN AccreditationOf(i) ELSE <<>>)
        /\ journals[i].link =
              (IF soup[1].names[i].anchors = <<>> THEN <<>>
               ELSE soup[1].names[i].anchors[1].attrs.href)

\* Every anchor that is the first of its name block has an href attribute.
AnchorsHaveHref ==
    \A i \in 1..K :
        soup[1].names[i].anchors # <<>>
            => "href" \in DOMAIN soup[1].names[i].anchors[1].attrs

\* C3, as stated: on every page with k name blocks, m <= k affiliation blocks
\* and p <= k accreditation blocks, extract_journal_data returns exactly k
\* records in name-block order, with the affiliation (accreditation) of block
\* i or the empty string from index m (p) on, and the first anchor's href or
\* the empty string as link.
C3_AsStated == (Extracted /\ M <= K /\ P <= K) => AlignedRecords

\* C3 where the link lookup does not raise: the same, on every such page whose
\* name blocks' first anchors all carry an href attribute.
C3_AlignedRecords ==
    (Extracted /\ M <= K /\ P <= K /\ AnchorsHaveHref) => AlignedRecords

\* A page with two name blocks, one affiliation block and no accreditation
\* block, the first name block holding two anchors and the second none.
C3_Witness ==
    /\ Extracted
    /\ K = 2 /\ M = 1 /\ P = 0
    /\ Len(soup[1].names[1].anchors) = 2
    /\ soup[1].names[2].anchors = <<>>
    /\ Len(journals) = 2
    /\ journals[2].affiliation = <<>>
    /\ journals[1].affiliation # <<>>

\* C1: when a fetch (of the first page or of a page of the loop), the
\* pagination read or the record extraction fails, the run is Aborted, the
\* failing call is the last call of the run, and no export, visualization or
\* print step has executed: the records of earlier pages reach no collaborator.
C1_AbortBeforeExport ==
    \A i \in RaisedCalls({"GET", "get_pagination", "extract"}) :
        /\ pc = "Aborted"
        /\ exit # <<>>
        /\ i = Len(events)
        /\ NothingExported

\* The fetch of page 2 failed after the records of page 1 were accumulated.
C1_Witness ==
    /\ pc = "Aborted"
    /\ Len(events) > 3
    /\ events[Len(events)] = Raised("GET")
    /\ page = <<2>>
    /\ Len(all_journals) > 0
    /\ exit[1].exc = "SystemExit"
    /\ NothingExported

RECURSIVE Flatten(_)
Flatten(ps) == IF ps = <<>> THEN <<>> ELSE Head(ps).records \o Flatten(Tail(ps))

RECURSIVE TotalLen(_)
TotalLen(ps) == IF ps = <<>> THEN 0 ELSE Len(Head(ps).records) + TotalLen(Tail(ps))

Finalizing == pc \in {"save_to_csv", "visualize_data", "print", "Done"}

\* C2: in a run over N pages that reaches Finalize, all_journals is the
\* concatenation of the record sequences extracted from pages 1, 2, ..., N
\* in that order, its length is the sum of the per-page counts, and in every
\* step the accumulator only grows at its end.
C2_Concatenation ==
    /\ [](Finalizing =>
            /\ Len(extracted) = total_pages[1]
            /\ \A i \in DOMAIN extracted : extracted[i].page = i
            /\ all_journals = Flatten(extracted)
            /\ Len(all_journals) = TotalLen(extracted))
    /\ [][IsPrefix(all_journals, all_journals')]_vars

\* Two pages with the same two records: all four are in the result.
C2_Witness ==
    /\ pc = "Done"
    /\ total_pages = <<2>>
    /\ Len(extracted[1].records) = 2
    /\ extracted[2].records = extracted[1].records
    /\ Len(all_journals) = 4
    /\ all_journals[1] = all_journals[3]
    /\ all_journals[1] # all_journals[2]

\* get_pagination was applied to the first page.
Paginated == initial_soup # <<>> /\ pc \notin {"run", "fetch_initial", "get_pagination"}
SummaryDivs == initial_soup[1].pagination
KeywordNotFound ==
    /\ pc = "Aborted"
    /\ total_pages = <<>>
    /\ exit = <<[exc |-> "SystemExit", msg |-> "Aborted, Keyword Not Found!!!",
                 raised_in |-> "get_pagination"]>>

\* C4, as stated: get_pagination returns T on "Showing results page 1 of T",
\* for every T, and raises on a page without the marker or whose text lacks
\* the page count.
C4_AsStated ==
    Paginated =>
        /\ \A t \in 1..MaxPages :
              SummaryDivs = <<ShowingResultsSummary(t)>> => total_pages = <<t>>
        /\ SummaryDivs \in {<<>>, << <<>> >>, <<TruncatedSummary>>}
              => KeywordNotFound

\* C4, amended: get_pagination returns the integer that is the 4th
\* whitespace-delimited token of the summary: T on "Page 1 of T | Total
\* Records : R" and 1 on "Showing results page 1 of T", for every T; it raises
\* SystemExit("Aborted, Keyword Not Found!!!") when the marker is absent, the
\* text has fewer than four tokens, or the 4th token is no integer ("Showing
\* page 1 of T").
C4_FourthToken ==
    Paginated =>
        /\ \A t \in 0..MaxPages :
              SummaryDivs = <<SiteSummary(t)>> => total_pages = <<t>>
        /\ \A t \in 1..MaxPages :
              /\ SummaryDivs = <<ShowingResultsSummary(t)>> => total_pages = <<1>>
              /\ SummaryDivs = <<ShowingSummary(t)>> => KeywordNotFound
        /\ SummaryDivs \in {<<>>, << <<>> >>, <<TruncatedSummary>>}
              => KeywordNotFound

\* "Showing results page 1 of 2" was read as 1 page, and a first page
\* without the marker aborts the run.
C4_Witness ==
    /\ Paginated
    /\ SummaryDivs = <<ShowingResultsSummary(2)>>
    /\ total_pages = <<1>>
    /\ pc = "for"

\* C5: every run that ends unsuccessfully has written an error entry to its
\* log before it reached the terminal state.
C5_ErrorsLogged ==
    pc = "Aborted" => \E i \in DOMAIN log : log[i].level = "ERROR"

\* What the history keeps of a call for the order of the calls: its name,
\* and the page number of a GET or the seconds of a wait.
EventKey(e) == <<e.op, IF e.op \in {"GET", "sleep"} THEN e.n ELSE 0>>
Keys(es) == [i \in DOMAIN es |-> EventKey(es[i])]
IsLoopCall(e) == e.ok /\ e.op \in {"GET", "extract", "extend", "sleep"}
IsExportCall(e) == e.op \in ExportOps

\* The calls of the iterations for pages 1..n.
RECURSIVE LoopCalls(_)
LoopCalls(n) ==
    IF n <= 0 THEN <<>>
    ELSE LoopCalls(n - 1) \o
         << <<"GET", n>>, <<"extract", 0>>, <<"extend", 0>>, <<"sleep", PacingDelay>> >>

\* The fetches, extractions, appends and waits that returned, in order.
Collected == Keys(SelectSeq(events, IsLoopCall))

\* The rows of the CSV file are the accumulated records, in order.
CsvInPlace ==
    /\ csv # <<>>
    /\ Len(csv[1]) = Len(all_journals)
    /\ \A i \in DOMAIN all_journals :
          csv[1][i] = <<all_journals[i].name, all_journals[i].link,
                        all_journals[i].affiliation, all_journals[i].accreditation>>

\* C6: the export, the visualization and the print happen in this order, each
\* only after the one before it returned; once the first of them has started
\* no page is fetched or extracted and the accumulator does not change; when
\* the visualization fails the CSV file is in place, and when the print fails
\* the CSV file and both charts are.
C6_FinalizeOrder ==
    /\ [](LET fin == SelectSeq(events, IsExportCall)
          IN  /\ IsPrefix([i \in DOMAIN fin |-> fin[i].op],
                          <<"save_to_csv", "visualize_data", "print">>)
              /\ \A i \in DOMAIN fin : i < Len(fin) => fin[i].ok
              /\ \A i, j \in DOMAIN events :
                    (IsExportCall(events[i]) /\ i < j) => IsExportCall(events[j])
              /\ (exit # <<>> /\ exit[1].raised_in = "visualize_data") => CsvInPlace
              /\ (exit # <<>> /\ exit[1].raised_in = "run")
                    => CsvInPlace /\ viz = {AffiliationChart, AccreditationChart})
    /\ [][(\E i \in DOMAIN events : IsExportCall(events[i]))
            => all_journals' = all_journals]_vars

\* The visualization failed after the CSV file of a two-page run was written.
C6_Witness ==
    /\ pc = "Aborted"
    /\ exit[1].raised_in = "visualize_data"
    /\ total_pages = <<2>>
    /\ Len(all_journals) >= 2
    /\ CsvInPlace

\* C7: the page count is read once, right after the first fetch, and never
\* changes; the calls of the loop are, for page 1, 2, ..., N in this order,
\* fetch, extract, append, wait; a run that reaches the export has made all
\* of them, the wait after the last page included.
C7_LoopOrder ==
    /\ [](total_pages # <<>> =>
            /\ Calls("get_pagination") = {2}
            /\ events[2].n = total_pages[1]
            /\ IsPrefix(Collected, << <<"GET", 0>> >> \o LoopCalls(total_pages[1]))
            /\ (\E i \in DOMAIN events : IsExportCall(events[i]))
                  => Collected = << <<"GET", 0>> >> \o LoopCalls(total_pages[1]))
    /\ [][total_pages # <<>> => total_pages' = total_pages]_vars

\* The loop over two pages is over: the wait after page 2 has happened.
C7_Witness ==
    /\ pc = "save_to_csv"
    /\ total_pages = <<2>>
    /\ events[Len(events)] = Event("sleep", PacingDelay)
    /\ Cardinality(Calls("sleep")) = 2

Terminal == {"Done", "Aborted"}

\* C9: a started run reaches Done or Aborted; Done is a return and Aborted an
\* exception; a call that raises takes the run to Aborted at once, whatever the
\* step; and no step is taken from Done or Aborted.
C9_Termination ==
    /\ <>(pc \in Terminal)
    /\ [](pc = "Done" => exit = <<>>)
    /\ [](pc = "Aborted" => exit # <<>>)
    /\ [][(Len(events') > Len(events) /\ ~events'[Len(events')].ok)
            => pc' = "Aborted"]_vars
    /\ [][pc \notin Terminal]_vars

\* A run over two pages that ended in Done.
C9_Witness ==
    /\ pc = "Done"
    /\ total_pages = <<2>>
    /\ exit = <<>>

\* C10: a run that ends in Done with total_pages = N made N + 1 GETs, the
\* first to the URL without a page parameter and then one per page 1..N, N
\* extractions and N waits; the GET of page 1 follows the page-count read at
\* once, with no wait between, and a wait follows every fetch of the loop.
C10_FetchesAndWaits ==
    pc = "Done" =>
        LET n == total_pages[1]
        IN  /\ Cardinality({i \in DOMAIN events : events[i].op = "GET"}) = n + 1
            /\ Cardinality(Calls("sleep")) = n
            /\ Cardinality(Calls("extract")) = n
            /\ events[1] = Event("GET", 0)
            /\ \A k \in 1..n : \E i \in Calls("GET") : events[i].n = k
            /\ n >= 1 => events[3] = Event("GET", 1)
            /\ \A i \in Calls("GET") :
                  events[i].n >= 1 =>
                      /\ i + 3 <= Len(events)
                      /\ events[i + 3] = Event("sleep", PacingDelay)
                      /\ \A j \in (i + 1)..(i + 2) : events[j].op \notin {"GET", "sleep"}

\* A successful run over two pages.
C10_Witness ==
    /\ pc = "Done"
    /\ total_pages = <<2>>
    /\ Cardinality(Calls("GET")) = 3
    /\ Cardinality(Calls("sleep")) = 2

\* C8, as stated: a page of the loop without any record marker aborts the run
\* with the outcome of a failed pagination read.
NoMarkers == soup # <<>> /\ K = 0 /\ M = 0 /\ P = 0
====
